---- MODULE Spec2Model ----
(***************************************************************************)
(* GistLick GitHub API: the HTTP facade of src/main.py, its authentication *)
(* dependency (src/dependencies.py) and its schemas (src/models.py), over  *)
(* the GistLick document-store client (gistlick_core, not part of src/).   *)
(*                                                                         *)
(* A request runs through the framework's pipeline: the route table picks  *)
(* the endpoint (first registered match), the dependency                  *)
(* get_gistlick_instance authenticates, the body is validated against the  *)
(* endpoint's schema, the endpoint function runs.  The model takes every   *)
(* function body as written.                                               *)
(***************************************************************************)
EXTENDS Integers, Sequences, FiniteSets, TLC

(* ------------------------------ bounds -------------------------------- *)
MaxLen == 2
MaxNow == 1
MaxDays == 1
MaxHeaderLen == 5

(* ------------------------------ values -------------------------------- *)
Absent == "<absent>"
\* The store holds one document id.
GistOrder == <<"g1">>
GistIds == {GistOrder[i] : i \in DOMAIN GistOrder}
Keys == {"K1", "K2"}
Fields == {"license", "user", "plan", "machine", "created", "expired"}

\* Timestamps in the format '%Y-%m-%d %H:%M:%S', one per day of the model's clock.
TsStr == <<"2024-01-01 00:00:00", "2024-01-02 00:00:00", "2024-01-03 00:00:00",
           "2024-01-04 00:00:00", "2024-01-05 00:00:00", "2024-01-06 00:00:00",
           "2024-01-07 00:00:00", "2024-01-08 00:00:00">>
ValueError == -1

\* datetime.strftime(t, '%Y-%m-%d %H:%M:%S')
Strftime(t) == TsStr[t + 1]

\* datetime.strptime(s, '%Y-%m-%d %H:%M:%S'): the instant, or ValueError.
Strptime(s) ==
    IF \E i \in DOMAIN TsStr : TsStr[i] = s
    THEN (CHOOSE i \in DOMAIN TsStr : TsStr[i] = s) - 1
    ELSE ValueError

(* --------------------------- JSON documents --------------------------- *)
\* A JSON object element: its keys are the fields that are not Absent.
NoFields == [f \in Fields |-> Absent]
Obj(d) == [kind |-> "obj", f |-> d]
NonObj == [kind |-> "other", f |-> NoFields]
Rec(k, u, p, m, c, e) ==
    Obj([f \in Fields |->
          CASE f = "license" -> k [] f = "user" -> u [] f = "plan" -> p
            [] f = "machine" -> m [] f = "created" -> c [] f = "expired" -> e])

\* A document body: a JSON array of elements, a plain string, or a JSON object.
ListDoc(items) == [kind |-> "list", items |-> items]
StrDoc == [kind |-> "str", items |-> <<>>]
DictDoc == [kind |-> "dict", items |-> <<>>]

NoGist == [exists |-> FALSE, name |-> Absent, content |-> StrDoc]
Gist(n, c) == [exists |-> TRUE, name |-> n, content |-> c]

\* The elements of the documents the model starts from: records with a past, a
\* later, an empty, an unparsable and no 'expired', and an element that is no object.
SampleElems ==
    {Rec("K1", "alice", "free", "m1", Strftime(0), Strftime(0)),
     Rec("K2", "alice", "free", "m1", Strftime(0), Strftime(1)),
     Rec("K1", "alice", "free", "m1", Strftime(0), ""),
     Rec("K2", "alice", "free", "m1", Strftime(0), "garbage"),
     Rec("K1", "alice", "free", "m1", Strftime(0), Absent),
     NonObj}

SeqsUpTo(S, n) == UNION {[1..k -> S] : k \in 0..n}

SampleDocs == {StrDoc, DictDoc} \cup {ListDoc(s) : s \in SeqsUpTo(SampleElems, MaxLen)}
SampleGists == {NoGist} \cup {Gist("a.json", c) : c \in SampleDocs}

(* ----------------------------- exceptions ----------------------------- *)
Exc(kind, st, text) == [kind |-> kind, status |-> st, text |-> text]
NoExc == Exc("none", 0, "")
\* requests.exceptions.HTTPError carrying the remote response (status_code, text).
HTTPError(st, text) == Exc("HTTPError", st, text)
\* fastapi.HTTPException(status_code, detail)
HTTPException(st, text) == Exc("HTTPException", st, text)

\* Failures the remote store may report on a call (besides 404 for a missing document).
RemoteFaults == {HTTPError(403, "API rate limit exceeded")}
Faults == {NoExc} \cup RemoteFaults
\* At most one of an operation's two remote calls fails.
FaultPlans == {<<f, NoExc>> : f \in Faults} \cup {<<NoExc, f>> : f \in Faults}

(* ------------------------------ responses ----------------------------- *)
\* detail is the message as a sequence of the pieces it is formatted from.
Response(st, detail, items, meta, count) ==
    [status |-> st, detail |-> detail, items |-> items, meta |-> meta, count |-> count]
NoResp == Response(0, <<>>, <<>>, <<>>, 0)
Ok(st, items, meta, count) == Response(st, <<>>, items, meta, count)
Error(st, detail) == Response(st, detail, <<>>, <<>>, 0)
Includes(detail, m) == \E i \in DOMAIN detail : detail[i] = m

\* f"GitHub API error: {e.response.status_code} - {e.response.text}"
GithubDetail(e) == <<"GitHub API error: ", ToString(e.status), " - ", e.text>>
\* f"Gist with ID '{gist_id}' not found."
GistNotFoundDetail(gid) == <<"Gist with ID '", gid, "' not found.">>
\* str(e) of a caught exception
StrOf(e) == IF e.kind = "HTTPException" THEN <<ToString(e.status), ": ", e.text>> ELSE <<e.text>>
\* An exception no handler catches: the framework answers 500.
Unhandled == Error(500, <<"Internal Server Error">>)

(* --------------------- the Authorization header ----------------------- *)
\* A header value is a string, here a sequence of atoms: a space, or a word piece
\* without whitespace; adjacent word pieces form one word.
Space == " "
HeaderAtoms == {Space, "Bearer", "bearer", "tok"}
NoHeader == [present |-> FALSE, s |-> <<>>]
HeaderOf(s) == [present |-> TRUE, s |-> s]
AllHeaders == {NoHeader} \cup {HeaderOf(s) : s \in SeqsUpTo(HeaderAtoms, MaxHeaderLen)}
SampleHeaders == {NoHeader, HeaderOf(<<"Bearer", Space, "tok">>), HeaderOf(<<"tok">>)}

\* str.split(): the maximal runs of non-whitespace, in order.
RECURSIVE SplitFrom(_, _, _)
SplitFrom(s, i, word) ==
    IF i > Len(s) THEN (IF word = <<>> THEN <<>> ELSE <<word>>)
    ELSE IF s[i] = Space
         THEN (IF word = <<>> THEN <<>> ELSE <<word>>) \o SplitFrom(s, i + 1, <<>>)
         ELSE SplitFrom(s, i + 1, Append(word, s[i]))
Split(s) == SplitFrom(s, 1, <<>>)

\* str.lower() of a word
LowerAtom(a) == IF a = "Bearer" THEN "bearer" ELSE a
Lower(word) == [i \in DOMAIN word |-> LowerAtom(word[i])]

(* ------------------------------- routing ------------------------------ *)
RouteOf(m, pat, ep) == [method |-> m, pattern |-> pat, endpoint |-> ep]
\* The route table, in the order the decorators of main.py register it.
Routes ==
    << RouteOf("GET", <<>>, "root"),
       RouteOf("GET", <<"user", "me">>, "get_user_me"),
       RouteOf("GET", <<"gists">>, "list_gists"),
       RouteOf("GET", <<"gists", "{gist_id}">>, "get_single_gist"),
       RouteOf("POST", <<"gists">>, "create_gist"),
       RouteOf("PUT", <<"gists", "{gist_id}">>, "update_gist"),
       RouteOf("DELETE", <<"gists", "{gist_id}">>, "delete_gist"),
       RouteOf("GET", <<"gists", "{gist_id}", "licenses">>, "list_licenses_in_gist"),
       RouteOf("POST", <<"gists", "{gist_id}", "licenses">>, "create_license_in_gist"),
       RouteOf("PUT", <<"gists", "{gist_id}", "licenses", "{license_key}">>,
               "update_license_in_gist"),
       RouteOf("DELETE", <<"gists", "{gist_id}", "licenses", "{license_key}">>,
               "delete_license_from_gist"),
       RouteOf("DELETE", <<"gists", "{gist_id}", "licenses", "expired">>,
               "delete_expired_licenses_in_gist"),
       RouteOf("GET", <<"gists", "{gist_id}", "raw_data">>, "get_raw_gist_content") >>

IsParam(seg) == seg \in {"{gist_id}", "{license_key}"}
Matches(route, m, path) ==
    /\ route.method = m
    /\ Len(route.pattern) = Len(path)
    /\ \A i \in DOMAIN path : IsParam(route.pattern[i]) \/ route.pattern[i] = path[i]

\* The router walks the table in order and takes the first route that matches.
Dispatch(m, path) ==
    LET hits == {i \in DOMAIN Routes : Matches(Routes[i], m, path)}
    IN  IF hits = {} THEN "none"
        ELSE Routes[CHOOSE i \in hits : \A j \in hits : i <= j].endpoint

\* Path parameters of a request path (Absent where the path has none).
GistIdOf(path) == IF Len(path) >= 2 /\ path[1] = "gists" THEN path[2] ELSE Absent
LicenseKeyOf(path) == IF Len(path) = 4 THEN path[4] ELSE Absent

Methods == {"GET", "POST", "PUT", "DELETE"}
PathKeys == {"K1", "expired"}
Paths ==
    {<<>>, <<"user", "me">>, <<"gists">>}
    \cup {<<"gists", g>> : g \in GistIds}
    \cup {<<"gists", g, "licenses">> : g \in GistIds}
    \cup {<<"gists", g, "licenses", k>> : g \in GistIds, k \in PathKeys}
    \cup {<<"gists", g, "raw_data">> : g \in GistIds}
\* The fields of a license request body (LicenseBase, and LicenseCreate's gist_id).
BaseFields == Fields \ {"license"}
BodyFields == BaseFields \cup {"gist_id"}
NoBody == [f \in BodyFields |-> Absent]
MkBody(u, p, m, c, e, g) ==
    [f \in BodyFields |->
       CASE f = "user" -> u [] f = "plan" -> p [] f = "machine" -> m
         [] f = "created" -> c [] f = "expired" -> e [] f = "gist_id" -> g]
Request(m, path, h) ==
    [method |-> m, path |-> path, header |-> h, body |-> NoBody, days |-> 0,
     name |-> Absent, content |-> Absent]
NoRequest == Request("GET", <<>>, NoHeader)
\* The requests of the model: every method and path with a route, and one without.
Lines == {mp \in Methods \X Paths : Dispatch(mp[1], mp[2]) # "none"}
             \cup {<<"POST", <<"user", "me">>>>}

(* ------------- the document-store client (gistlick_core) -------------- *)
\* Every operation takes the store gs, its arguments and the failure (if any) the
\* remote store reports on its call (for a read-modify-write operation the pair fp:
\* the failure of the read and the failure of the write), and gives
\* [exc, store, items, meta, count, calls]: the exception raised (NoExc on success),
\* the store afterwards, the returned records or metadata, and the remote calls made.
Lib(exc, store, items, meta, count, calls) ==
    [exc |-> exc, store |-> store, items |-> items, meta |-> meta, count |-> count,
     calls |-> calls]
Raise(exc, gs, calls) == Lib(exc, gs, <<>>, <<>>, 0, calls)
MetaOf(gs, g) == [id |-> g, name |-> gs[g].name]

\* The failure of a read of document g: the reported fault, or 404 when g is missing.
ReadExc(gs, g, fault) ==
    IF fault # NoExc THEN fault
    ELSE IF g \notin GistIds \/ ~gs[g].exists THEN HTTPError(404, "Not Found")
    ELSE NoExc

\* now() > parse(expired), false when expired is absent, empty or unparsable
Expired(item, now) ==
    /\ item.kind = "obj"
    /\ item.f["expired"] \notin {Absent, ""}
    /\ Strptime(item.f["expired"]) # ValueError
    /\ now > Strptime(item.f["expired"])

HasKey(item, key) == item.kind = "obj" /\ item.f["license"] = key

\* GistLick.user: authenticate(token) -> UserIdentity | AuthError
LibUser(outcome) ==
    IF outcome.kind = "HTTPError" THEN [exc |-> outcome, id |-> Absent]
    ELSE [exc |-> NoExc, id |-> IF outcome.kind = "noid" THEN Absent ELSE "1"]

\* listDocuments()
LibGetGist(gs, fault) ==
    LET Exists(g) == gs[g].exists
        ids == SelectSeq(GistOrder, Exists)
    IN  IF fault # NoExc THEN Raise(fault, gs, <<"listDocuments">>)
        ELSE Lib(NoExc, gs, <<>>, [i \in DOMAIN ids |-> MetaOf(gs, ids[i])], 0,
                 <<"listDocuments">>)

\* getDocument(id)
LibGetGistData(gs, g, fault) ==
    LET e == ReadExc(gs, g, fault)
    IN  IF e # NoExc THEN Raise(e, gs, <<"getDocument">>)
        ELSE Lib(NoExc, gs, <<>>, <<MetaOf(gs, g)>>, 0, <<"getDocument">>)

\* getDocumentContent(id)
LibGetGistContent(gs, g, fault) ==
    LET e == ReadExc(gs, g, fault)
    IN  IF e # NoExc THEN Raise(e, gs, <<"getDocumentContent">>)
        ELSE Lib(NoExc, gs, gs[g].content.items, <<>>, 0, <<"getDocumentContent">>)

\* createDocument(name, isPublic, description): a new document under a fresh id
LibCreateGist(gs, name, fault) ==
    LET Free(x) == ~gs[x].exists
        g == Head(SelectSeq(GistOrder, Free))
        gs2 == [gs EXCEPT ![g] = Gist(name, ListDoc(<<>>))]
    IN  IF fault # NoExc THEN Raise(fault, gs, <<"createDocument">>)
        ELSE Lib(NoExc, gs2, <<>>, <<MetaOf(gs2, g)>>, 0, <<"createDocument">>)

\* updateDocument(id, content?, name?, isPublic?, description?)
LibUpdateGist(gs, g, name, content, fault) ==
    LET e == ReadExc(gs, g, fault)
        c == IF content = Absent THEN gs[g].content
             ELSE IF content = "[]" THEN ListDoc(<<>>) ELSE StrDoc
        n == IF name = Absent THEN gs[g].name ELSE name
        gs2 == [gs EXCEPT ![g] = Gist(n, c)]
    IN  IF e # NoExc THEN Raise(e, gs, <<"updateDocument">>)
        ELSE Lib(NoExc, gs2, <<>>, <<MetaOf(gs2, g)>>, 0, <<"updateDocument">>)

\* deleteDocument(id)
LibDeleteGist(gs, g, fault) ==
    LET e == ReadExc(gs, g, fault)
    IN  IF e # NoExc THEN Raise(e, gs, <<"deleteDocument">>)
        ELSE Lib(NoExc, [gs EXCEPT ![g] = NoGist], <<>>, <<>>, 0, <<"deleteDocument">>)

\* The write of a whole array back to document g.
WriteBack(gs, g, items) == [gs EXCEPT ![g].content = ListDoc(items)]
ReadCalls == <<"getDocumentContent">>
ReadWriteCalls == <<"getDocumentContent", "updateDocument">>
NotAnArray == Exc("ValueError", 0, "Gist content is not a list of licenses")

\* Create(gist_id, user, plan, machine, expired_days) with the generated key
LibCreateLicense(gs, g, user, plan, machine, days, key, now, fp) ==
    LET e == ReadExc(gs, g, fp[1])
        new == Rec(key, user, plan, machine, Strftime(now), Strftime(now + days))
    IN  IF e # NoExc THEN Raise(e, gs, ReadCalls)
        ELSE IF gs[g].content.kind # "list" THEN Raise(NotAnArray, gs, ReadCalls)
        ELSE IF days <= 0
             THEN Raise(Exc("ValueError", 0, "expired_days must be positive"), gs, ReadCalls)
        ELSE IF fp[2] # NoExc THEN Raise(fp[2], gs, ReadWriteCalls)
        ELSE Lib(NoExc, WriteBack(gs, g, Append(gs[g].content.items, new)),
                 <<new>>, <<>>, 0, ReadWriteCalls)

\* The merge of the provided fields (those not None) into a record.
Merge(item, upd) ==
    Obj([f \in Fields |-> IF f # "license" /\ upd[f] # Absent THEN upd[f] ELSE item.f[f]])

\* The mutant of LibUpdateLicense: the merged record is appended and the element it
\* was merged from stays in the array.
LibUpdateLicenseAppends(gs, g, key, upd, fp) ==
    LET e == ReadExc(gs, g, fp[1])
        items == gs[g].content.items
        hits == {i \in DOMAIN items : HasKey(items[i], key)}
        at == CHOOSE i \in hits : \A j \in hits : i <= j
        merged == Merge(items[at], upd)
    IN  IF e # NoExc THEN Raise(e, gs, ReadCalls)
        ELSE IF gs[g].content.kind # "list" THEN Raise(NotAnArray, gs, ReadCalls)
        ELSE IF hits = {}
             THEN Raise(Exc("ValueError", 0, "License not found"), gs, ReadCalls)
        ELSE IF fp[2] # NoExc THEN Raise(fp[2], gs, ReadWriteCalls)
        ELSE Lib(NoExc, WriteBack(gs, g, Append(items, merged)),
                 <<merged>>, <<>>, 0, ReadWriteCalls)

\* Update(gist_id, license_key, fields...)
LibUpdateLicense(gs, g, key, upd, fp) ==
    LET e == ReadExc(gs, g, fp[1])
        items == gs[g].content.items
        hits == {i \in DOMAIN items : HasKey(items[i], key)}
        at == CHOOSE i \in hits : \A j \in hits : i <= j
        merged == Merge(items[at], upd)
    IN  IF e # NoExc THEN Raise(e, gs, ReadCalls)
        ELSE IF gs[g].content.kind # "list" THEN Raise(NotAnArray, gs, ReadCalls)
        ELSE IF hits = {}
             THEN Raise(Exc("ValueError", 0, "License not found"), gs, ReadCalls)
        ELSE IF fp[2] # NoExc THEN Raise(fp[2], gs, ReadWriteCalls)
        ELSE Lib(NoExc, WriteBack(gs, g, [items EXCEPT ![at] = merged]),
                 <<merged>>, <<>>, 0, ReadWriteCalls)

\* Delete(gist_id, license_key)
LibDeleteLicense(gs, g, key, fp) ==
    LET e == ReadExc(gs, g, fp[1])
        items == gs[g].content.items
        Keep(x) == ~HasKey(x, key)
        kept == SelectSeq(items, Keep)
    IN  IF e # NoExc THEN Raise(e, gs, ReadCalls)
        ELSE IF gs[g].content.kind # "list" THEN Raise(NotAnArray, gs, ReadCalls)
        ELSE IF Len(kept) = Len(items)
             THEN Raise(Exc("ValueError", 0, "License not found"), gs, ReadCalls)
        ELSE IF fp[2] # NoExc THEN Raise(fp[2], gs, ReadWriteCalls)
        ELSE Lib(NoExc, WriteBack(gs, g, kept), <<>>, <<>>, 0, ReadWriteCalls)

\* DeleteExpired(gist_id)
LibDeleteExpiredLicenses(gs, g, now, fp) ==
    LET e == ReadExc(gs, g, fp[1])
        items == gs[g].content.items
        Keep(x) == ~Expired(x, now)
        kept == SelectSeq(items, Keep)
    IN  IF e # NoExc THEN Raise(e, gs, ReadCalls)
        ELSE IF gs[g].content.kind # "list" THEN Raise(NotAnArray, gs, ReadCalls)
        ELSE IF fp[2] # NoExc THEN Raise(fp[2], gs, ReadWriteCalls)
        ELSE Lib(NoExc, WriteBack(gs, g, kept), <<>>, <<>>, Len(items) - Len(kept),
                 ReadWriteCalls)

(* ------------------------- schemas (models.py) ------------------------ *)
\* LicenseBase: user, plan, machine, created, expired are all required (Field(...)).
LicenseBaseValid(b) == \A f \in BaseFields : b[f] # Absent
\* LicenseCreate(LicenseBase): gist_id required, expired_days > 0
LicenseCreateValid(b, days) == LicenseBaseValid(b) /\ b["gist_id"] # Absent /\ days > 0
\* LicenseUpdate(LicenseBase): pass
LicenseUpdateValid(b) == LicenseBaseValid(b)
\* GistBase: name required
GistBaseValid(name) == name # Absent
\* LicenseResponse(LicenseBase): license required too; every key of the element is
\* passed as a keyword argument.
LicenseResponseValid(item) == \A f \in Fields : item.f[f] # Absent
\* The framework's answer to a body that fails its schema.
Unprocessable == Error(422, <<"validation error">>)

\* A LicenseResponse: the record's fields with gist_id, gist_name and is_expired.
\* The mutant of Entry: the document's id is passed where its name belongs.
EntryNamedById(item, gid, name, exp) ==
    [f |-> item.f, gist_id |-> gid, gist_name |-> gid, is_expired |-> exp]

Entry(item, gid, name, exp) ==
    [f |-> item.f, gist_id |-> gid, gist_name |-> name, is_expired |-> exp]

(* -------------------- dependencies.py: authentication ----------------- *)
NoHandle == <<>>
AuthOk == Exc("ok", 0, "")
AuthNoId == Exc("noid", 0, "")
\* What the remote authentication call answers for a token.
AuthOutcomes == {AuthOk, AuthNoId, HTTPError(401, "Bad credentials")}
\* dependencies.py imports fastapi, typing, gistlick_core, os and dotenv: the name
\* `requests` of its first except clause is bound nowhere in the module.
RequestsBound == FALSE

\* The except clauses of get_gistlick_instance, for an exception e raised in its try
\* block.  Evaluating `requests.exceptions.HTTPError` raises NameError when
\* `requests` is unbound, and no clause of the same try statement catches that.
AuthExcept(e) ==
    IF ~RequestsBound THEN Unhandled
    ELSE IF e.kind = "HTTPError" THEN Error(e.status, GithubDetail(e))
    ELSE Error(500, <<"Authentication failed: ">> \o StrOf(e))

Dep(resp, handle, calls) == [resp |-> resp, handle |-> handle, calls |-> calls]

\* The mutant of get_gistlick_instance: the scheme of the header is not compared.
get_gistlick_instance_any_scheme(h, outcome) ==
    LET parts == Split(h.s)
        user == LibUser(outcome)
    IN  IF ~h.present \/ h.s = <<>> \/ Len(parts) # 2
        THEN Dep(Error(401, <<"Authorization header must be 'Bearer TOKEN'">>), NoHandle, <<>>)
        ELSE IF user.exc # NoExc \/ user.id = Absent
        THEN Dep(Unhandled, parts[2], <<"authenticate">>)
        ELSE Dep(NoResp, parts[2], <<"authenticate">>)

get_gistlick_instance(h, outcome) ==
    LET parts == Split(h.s)
        user == LibUser(outcome)
    IN  IF ~h.present \/ h.s = <<>>
        THEN Dep(Error(401, <<"Authorization header missing or invalid. Use Bearer token.">>),
                 NoHandle, <<>>)
        ELSE IF Len(parts) # 2 \/ Lower(parts[1]) # <<"bearer">>
        THEN Dep(Error(401, <<"Authorization header must be 'Bearer TOKEN'">>), NoHandle, <<>>)
        ELSE IF user.exc # NoExc
        THEN Dep(AuthExcept(user.exc), parts[2], <<"authenticate">>)
        ELSE IF user.id = Absent
        THEN Dep(AuthExcept(HTTPException(401,
                   "Invalid GitHub token. Could not authenticate with GitHub.")),
                 parts[2], <<"authenticate">>)
        ELSE Dep(NoResp, parts[2], <<"authenticate">>)

(* ----------------------- main.py: the endpoints ---------------------- *)
\* What an endpoint function gives: the response, the store afterwards, the remote
\* calls it made, the client operation it ran and the exception raised in its body.
H(resp, store, calls, ran, exc) ==
    [resp |-> resp, store |-> store, calls |-> calls, ran |-> ran, exc |-> exc]

\* The mutant of ForwardHTTPError: the remote failure answered as a server error.
ForwardAsServerError(e) == Error(500, GithubDetail(e))

\* except requests.exceptions.HTTPError: forward the remote status and text
ForwardHTTPError(e) == Error(e.status, GithubDetail(e))
\* ... with the 404 branch of the endpoints that take a gist_id
NotFoundOrForward(e, gid) ==
    IF e.status = 404 THEN Error(404, GistNotFoundDetail(gid)) ELSE ForwardHTTPError(e)
\* except Exception: 500 with str(e)
ServerError(e) == Error(500, StrOf(e))

\* The except clauses of each endpoint, for an exception e raised in its try block
\* (a pydantic ValidationError is a ValueError).
IsValueError(e) == e.kind \in {"ValueError", "ValidationError"}
list_gists_except(e) ==
    IF e.kind = "HTTPError" THEN ForwardHTTPError(e) ELSE ServerError(e)
get_single_gist_except(e, gid) ==
    IF e.kind = "HTTPError" THEN NotFoundOrForward(e, gid) ELSE ServerError(e)
create_gist_except(e) ==
    IF e.kind = "HTTPError" THEN ForwardHTTPError(e) ELSE ServerError(e)
update_gist_except(e, gid) ==
    IF e.kind = "HTTPError" THEN NotFoundOrForward(e, gid)
    ELSE IF IsValueError(e) THEN Error(400, StrOf(e)) ELSE ServerError(e)
delete_gist_except(e, gid) ==
    IF e.kind = "HTTPError" THEN NotFoundOrForward(e, gid) ELSE ServerError(e)
list_licenses_in_gist_except(e, gid) ==
    IF e.kind = "HTTPError" THEN NotFoundOrForward(e, gid) ELSE ServerError(e)
create_license_in_gist_except(e, gid) ==
    IF e.kind = "HTTPError" THEN NotFoundOrForward(e, gid)
    ELSE IF IsValueError(e) THEN Error(400, StrOf(e)) ELSE ServerError(e)
update_license_in_gist_except(e, gid) ==
    IF e.kind = "HTTPError" THEN NotFoundOrForward(e, gid)
    ELSE IF IsValueError(e) THEN Error(404, StrOf(e)) ELSE ServerError(e)
\* The mutant of delete_license_from_gist_except: ValueError answered 400, as the
\* other endpoints do.
delete_license_value_error_400(e, gid) ==
    IF e.kind = "HTTPError" THEN NotFoundOrForward(e, gid)
    ELSE IF IsValueError(e) THEN Error(400, StrOf(e)) ELSE ServerError(e)
delete_license_from_gist_except(e, gid) ==
    IF e.kind = "HTTPError" THEN NotFoundOrForward(e, gid)
    ELSE IF IsValueError(e) THEN Error(404, StrOf(e)) ELSE ServerError(e)
delete_expired_licenses_in_gist_except(e, gid) ==
    IF e.kind = "HTTPError" THEN NotFoundOrForward(e, gid)
    ELSE IF IsValueError(e) THEN Error(400, StrOf(e)) ELSE ServerError(e)
get_raw_gist_content_except(e, gid) ==
    IF e.kind = "HTTPError" THEN NotFoundOrForward(e, gid)
    ELSE IF IsValueError(e) THEN Error(400, StrOf(e)) ELSE ServerError(e)

\* get_current_user_info reads gist_lick.user again, outside any try block.
GetUserMe(gs, fault) ==
    IF fault # NoExc THEN H(Unhandled, gs, <<"authenticate">>, "user", fault)
    ELSE H(Ok(200, <<>>, <<>>, 0), gs, <<"authenticate">>, "user", NoExc)

ListGists(gs, fault) ==
    LET r == LibGetGist(gs, fault)
    IN  IF r.exc # NoExc THEN H(list_gists_except(r.exc), gs, r.calls, "get_gist", r.exc)
        ELSE H(Ok(200, <<>>, r.meta, 0), gs, r.calls, "get_gist", NoExc)

GetSingleGist(gs, gid, fault) ==
    LET r == LibGetGistData(gs, gid, fault)
    IN  IF r.exc # NoExc
        THEN H(get_single_gist_except(r.exc, gid), gs, r.calls, "get_gist_data", r.exc)
        ELSE H(Ok(200, <<>>, r.meta, 0), gs, r.calls, "get_gist_data", NoExc)

CreateGist(gs, name, fault) ==
    LET r == LibCreateGist(gs, name, fault)
    IN  IF ~GistBaseValid(name) THEN H(Unprocessable, gs, <<>>, Absent, NoExc)
        ELSE IF r.exc # NoExc THEN H(create_gist_except(r.exc), gs, r.calls, "create_gist", r.exc)
        ELSE H(Ok(201, <<>>, r.meta, 0), r.store, r.calls, "create_gist", NoExc)

UpdateGist(gs, gid, name, content, fault) ==
    LET r == LibUpdateGist(gs, gid, name, content, fault)
    IN  IF ~GistBaseValid(name) THEN H(Unprocessable, gs, <<>>, Absent, NoExc)
        ELSE IF r.exc # NoExc
        THEN H(update_gist_except(r.exc, gid), gs, r.calls, "update_gist", r.exc)
        ELSE H(Ok(200, <<>>, r.meta, 0), r.store, r.calls, "update_gist", NoExc)

DeleteGist(gs, gid, fault) ==
    LET r == LibDeleteGist(gs, gid, fault)
    IN  IF r.exc # NoExc
        THEN H(delete_gist_except(r.exc, gid), gs, r.calls, "delete_gist", r.exc)
        ELSE H(Ok(204, <<>>, <<>>, 0), r.store, r.calls, "delete_gist", NoExc)

IsObj(item) == item.kind = "obj"
\* `'expired' in item and item['expired']`, strptime, `datetime.now() > expired_dt`;
\* ValueError and TypeError leave is_expired_status False.
IsExpiredStatus(item, now) ==
    IF item.f["expired"] \in {Absent, ""} THEN FALSE
    ELSE IF Strptime(item.f["expired"]) = ValueError THEN FALSE
    ELSE now > Strptime(item.f["expired"])

\* The loop of list_licenses_in_gist over the elements from index i on: ms are the
\* answers of the get_gist_data calls still to come (one per object element).
RECURSIVE ListLoop(_, _, _, _, _, _)
ListLoop(items, i, gid, now, ms, acc) ==
    IF i > Len(items) THEN [exc |-> NoExc, items |-> acc.items, calls |-> acc.calls]
    ELSE IF ~IsObj(items[i]) THEN ListLoop(items, i + 1, gid, now, ms, acc)
    ELSE LET m == Head(ms)
             called == Append(acc.calls, "getDocument")
         IN  IF m.exc # NoExc THEN [exc |-> m.exc, items |-> <<>>, calls |-> called]
             ELSE IF ~LicenseResponseValid(items[i])
             THEN [exc |-> Exc("ValidationError", 0, "field required"), items |-> <<>>,
                   calls |-> called]
             ELSE ListLoop(items, i + 1, gid, now, Tail(ms),
                     [items |-> Append(acc.items,
                                  Entry(items[i], gid, m.name,
                                        IsExpiredStatus(items[i], now))),
                      calls |-> called])

\* list_licenses_in_gist: fp[1] is the failure of get_gist_content, fp[2] that of the
\* first get_gist_data.
ListLicensesInGist(gs, gid, now, fp) ==
    LET r == LibGetGistContent(gs, gid, fp[1])
        items == gs[gid].content.items
        meta(i) == LET d == LibGetGistData(gs, gid, IF i = 1 THEN fp[2] ELSE NoExc)
                   IN  [exc |-> d.exc, name |-> IF d.exc = NoExc THEN d.meta[1].name ELSE Absent]
        ms == [i \in 1..Len(items) |-> meta(i)]
        loop == ListLoop(items, 1, gid, now, ms, [items |-> <<>>, calls |-> r.calls])
        notList == HTTPException(400, "content is not a list of licenses")
    IN  IF r.exc # NoExc
        THEN H(list_licenses_in_gist_except(r.exc, gid), gs, r.calls, "get_gist_content", r.exc)
        ELSE IF gs[gid].content.kind # "list"
        THEN H(list_licenses_in_gist_except(notList, gid), gs, r.calls, "get_gist_content", notList)
        ELSE IF loop.exc # NoExc
        THEN H(list_licenses_in_gist_except(loop.exc, gid), gs, loop.calls, "get_gist_content", loop.exc)
        ELSE H(Ok(200, loop.items, <<>>, 0), gs, loop.calls, "get_gist_content", NoExc)

CreateLicenseInGist(gs, gid, body, days, key, now, fp) ==
    LET r == LibCreateLicense(gs, gid, body["user"], body["plan"], body["machine"],
                              days, key, now, fp)
    IN  IF ~LicenseCreateValid(body, days) THEN H(Unprocessable, gs, <<>>, Absent, NoExc)
        ELSE IF r.exc # NoExc
        THEN H(create_license_in_gist_except(r.exc, gid), gs, r.calls, "create_license", r.exc)
        ELSE H(Ok(201, <<Entry(r.items[1], Absent, Absent, FALSE)>>, <<>>, 0),
               r.store, r.calls, "create_license", NoExc)

UpdateLicenseInGist(gs, gid, key, body, fp) ==
    LET r == LibUpdateLicense(gs, gid, key, body, fp)
    IN  IF ~LicenseUpdateValid(body) THEN H(Unprocessable, gs, <<>>, Absent, NoExc)
        ELSE IF r.exc # NoExc
        THEN H(update_license_in_gist_except(r.exc, gid), gs, r.calls, "update_license", r.exc)
        ELSE H(Ok(200, <<Entry(r.items[1], Absent, Absent, FALSE)>>, <<>>, 0),
               r.store, r.calls, "update_license", NoExc)

DeleteLicenseFromGist(gs, gid, key, fp) ==
    LET r == LibDeleteLicense(gs, gid, key, fp)
    IN  IF r.exc # NoExc
        THEN H(delete_license_from_gist_except(r.exc, gid), gs, r.calls, "delete_license", r.exc)
        ELSE H(Ok(204, <<>>, <<>>, 0), r.store, r.calls, "delete_license", NoExc)

DeleteExpiredLicensesInGist(gs, gid, now, fp) ==
    LET r == LibDeleteExpiredLicenses(gs, gid, now, fp)
    IN  IF r.exc # NoExc
        THEN H(delete_expired_licenses_in_gist_except(r.exc, gid), gs, r.calls,
               "delete_expired_licenses", r.exc)
        ELSE H(Ok(200, <<>>, <<>>, r.count), r.store, r.calls, "delete_expired_licenses", NoExc)

GetRawGistContent(gs, gid, fault) ==
    LET r == LibGetGistContent(gs, gid, fault)
    IN  IF r.exc # NoExc
        THEN H(get_raw_gist_content_except(r.exc, gid), gs, r.calls, "get_gist_content", r.exc)
        ELSE H(Ok(200, <<>>, <<>>, 0), gs, r.calls, "get_gist_content", NoExc)

(* ------------------------------- state -------------------------------- *)
VARIABLES
    gists,   \* the remote store: document id -> document
    now,     \* the wall clock, in days
    pc,      \* the stage of the request in hand: idle, received, authed, done
    req,     \* the request in hand
    ep,      \* the endpoint the router dispatched it to
    resp,    \* its response (NoResp until it is answered)
    handle,  \* the token of the document-store handle created for it (NoHandle: none)
    calls,   \* the remote calls made for it, in order
    ran,     \* the client operation its endpoint ran (Absent: none)
    auth,    \* what the remote authentication call answered (NoExc: not called)
    raised,  \* the exception raised in the endpoint's body (NoExc: none)
    workers, \* concurrent server processes: each one's request and how far it is
    events,  \* the reads and writes of the store by those processes, in order
    base,    \* the store before any of them read it
    listing  \* a List call that runs while other requests do: how far it is

vars == <<gists, now, pc, req, ep, resp, handle, calls, ran, auth, raised,
          workers, events, base, listing>>
race == <<workers, events, base, listing>>
single == <<pc, req, ep, resp, handle, calls, ran, auth, raised>>

\* Inputs of the endpoints.
CreateBodies ==
    {MkBody("bob", "premium", "m2", Strftime(0), Strftime(0), "g1"),
     MkBody("bob", "premium", "m2", Absent, Absent, Absent)}
UpdateBodies ==
    {MkBody(Absent, "premium", Absent, Absent, Absent, Absent),
     MkBody("bob", "premium", "m2", Strftime(1), Strftime(2), Absent)}
GistContents == {Absent, "text"}

Idle ==
    /\ pc = "idle" /\ req = NoRequest /\ ep = "none" /\ resp = NoResp
    /\ handle = NoHandle /\ calls = <<>> /\ ran = Absent
    /\ auth = NoExc /\ raised = NoExc

\* The server processes that handle requests at the same time.
Workers == {"w1", "w2"}
Worker(p, e, path, body, days, key, snap, r) ==
    [pc |-> p, ep |-> e, path |-> path, body |-> body, days |-> days, key |-> key,
     snap |-> snap, resp |-> r]
\* A List call in steps: the array it read, the answers of its get_gist_data calls
\* so far, and the names the document has had since the call began.
Listing(p, items, ms, names, r) ==
    [pc |-> p, items |-> items, ms |-> ms, names |-> names, resp |-> r]
NoListing == Listing("start", <<>>, <<>>, {}, NoResp)
NoRace ==
    /\ listing = NoListing
    /\ workers = [w \in Workers |-> Worker("start", "none", <<>>, NoBody, 0, Absent, gists, NoResp)]
    /\ events = <<>>
    /\ base = gists

Init ==
    /\ gists \in [GistIds -> SampleGists]
    /\ now = 0
    /\ Idle
    /\ NoRace

\* A request arrives and is routed.
Arrive(headers) ==
    /\ pc = "idle"
    /\ \E mp \in Lines, h \in headers :
          /\ req' = Request(mp[1], mp[2], h)
          /\ ep' = Dispatch(mp[1], mp[2])
    /\ pc' = "received"
    /\ resp' = NoResp /\ handle' = NoHandle /\ calls' = <<>> /\ ran' = Absent
    /\ auth' = NoExc /\ raised' = NoExc
    /\ UNCHANGED <<gists, now, race>>

\* GET / takes no dependency.
root ==
    /\ pc = "received" /\ ep = "root"
    /\ resp' = Ok(200, <<>>, <<>>, 0)
    /\ pc' = "done"
    /\ UNCHANGED <<gists, now, req, ep, handle, calls, ran, auth, raised, race>>

\* No route matches the method and path.
NoRoute ==
    /\ pc = "received" /\ ep = "none"
    /\ resp' = Error(405, <<"Method Not Allowed">>)
    /\ pc' = "done"
    /\ UNCHANGED <<gists, now, req, ep, handle, calls, ran, auth, raised, race>>

\* The dependency of every other endpoint runs before the endpoint function.
Authenticate ==
    /\ pc = "received" /\ ep \notin {"root", "none"}
    /\ \E outcome \in AuthOutcomes :
          LET d == get_gistlick_instance(req.header, outcome)
          IN  /\ resp' = d.resp
              /\ handle' = d.handle
              /\ calls' = d.calls
              /\ auth' = IF d.calls = <<>> THEN NoExc ELSE outcome
              /\ pc' = IF d.resp = NoResp THEN "authed" ELSE "done"
    /\ UNCHANGED <<gists, now, req, ep, ran, raised, race>>

\* The endpoint function ran and gave h.
Finish(h) ==
    /\ resp' = h.resp
    /\ gists' = h.store
    /\ calls' = calls \o h.calls
    /\ ran' = h.ran
    /\ raised' = h.exc
    /\ pc' = "done"
    /\ UNCHANGED <<now, ep, handle, auth, race>>

Gid == GistIdOf(req.path)

get_user_me ==
    /\ pc = "authed" /\ ep = "get_user_me"
    /\ \E fault \in Faults : Finish(GetUserMe(gists, fault))
    /\ req' = req

list_gists ==
    /\ pc = "authed" /\ ep = "list_gists"
    /\ \E fault \in Faults : Finish(ListGists(gists, fault))
    /\ req' = req

get_single_gist ==
    /\ pc = "authed" /\ ep = "get_single_gist"
    /\ \E fault \in Faults : Finish(GetSingleGist(gists, Gid, fault))
    /\ req' = req

create_gist ==
    /\ pc = "authed" /\ ep = "create_gist"
    /\ \E g \in GistIds : ~gists[g].exists
    /\ \E name \in {"a.json", Absent}, fault \in Faults :
          /\ req' = [req EXCEPT !.name = name]
          /\ Finish(CreateGist(gists, name, fault))

update_gist ==
    /\ pc = "authed" /\ ep = "update_gist"
    /\ \E name \in {"b.json", Absent}, content \in GistContents, fault \in Faults :
          /\ req' = [req EXCEPT !.name = name, !.content = content]
          /\ Finish(UpdateGist(gists, Gid, name, content, fault))

delete_gist ==
    /\ pc = "authed" /\ ep = "delete_gist"
    /\ \E fault \in Faults : Finish(DeleteGist(gists, Gid, fault))
    /\ req' = req

list_licenses_in_gist ==
    /\ pc = "authed" /\ ep = "list_licenses_in_gist"
    /\ \E fp \in FaultPlans : Finish(ListLicensesInGist(gists, Gid, now, fp))
    /\ req' = req

\* The array of Gid is full: the model creates no further record in it.
Full(g) == gists[g].exists /\ Len(gists[g].content.items) >= MaxLen

create_license_in_gist ==
    /\ pc = "authed" /\ ep = "create_license_in_gist"
    /\ ~Full(Gid)
    /\ \E body \in CreateBodies, days \in 0..MaxDays, key \in Keys, fp \in FaultPlans :
          /\ req' = [req EXCEPT !.body = body, !.days = days]
          /\ Finish(CreateLicenseInGist(gists, Gid, body, days, key, now, fp))

update_license_in_gist ==
    /\ pc = "authed" /\ ep = "update_license_in_gist"
    /\ \E body \in UpdateBodies, fp \in FaultPlans :
          /\ req' = [req EXCEPT !.body = body]
          /\ Finish(UpdateLicenseInGist(gists, Gid, LicenseKeyOf(req.path), body, fp))

\* DELETE /gists/{gist_id}/licenses/<segment>: the endpoint the router picked.
delete_license_path ==
    /\ pc = "authed"
    /\ ep \in {"delete_license_from_gist", "delete_expired_licenses_in_gist"}
    /\ \E fp \in FaultPlans :
          Finish(IF ep = "delete_license_from_gist"
                 THEN DeleteLicenseFromGist(gists, Gid, LicenseKeyOf(req.path), fp)
                 ELSE DeleteExpiredLicensesInGist(gists, Gid, now, fp))
    /\ req' = req

get_raw_gist_content ==
    /\ pc = "authed" /\ ep = "get_raw_gist_content"
    /\ \E fault \in Faults : Finish(GetRawGistContent(gists, Gid, fault))
    /\ req' = req

\* The response is sent; nothing of the request outlives it.
Reply ==
    /\ pc = "done"
    /\ pc' = "idle" /\ req' = NoRequest /\ ep' = "none" /\ resp' = NoResp
    /\ handle' = NoHandle /\ calls' = <<>> /\ ran' = Absent
    /\ auth' = NoExc /\ raised' = NoExc
    /\ UNCHANGED <<gists, now, race>>

\* A day passes.
Tick ==
    /\ now < MaxNow
    /\ pc = "idle"
    /\ now' = now + 1
    /\ UNCHANGED <<gists, pc, req, ep, resp, handle, calls, ran, auth, raised, race>>

Endpoints ==
    \/ get_user_me \/ list_gists \/ get_single_gist \/ create_gist \/ update_gist
    \/ delete_gist \/ list_licenses_in_gist \/ create_license_in_gist
    \/ update_license_in_gist \/ delete_license_path \/ get_raw_gist_content

Next ==
    Arrive(SampleHeaders) \/ root \/ NoRoute \/ Authenticate \/ Endpoints \/ Reply \/ Tick

Spec == Init /\ [][Next]_vars

\* One request, with any Authorization header, against an empty store.
InitAuth ==
    /\ gists = [g \in GistIds |-> NoGist]
    /\ now = 0
    /\ Idle
    /\ NoRace

NextAuth == Arrive(AllHeaders) \/ root \/ NoRoute \/ Authenticate \/ Endpoints

SpecAuth == InitAuth /\ [][NextAuth]_vars

(* --------------------- requests handled concurrently ------------------ *)
\* Each endpoint function runs without interruption in its own process; several
\* processes (or other clients of the store) interleave at the remote calls.  A
\* write endpoint reads the document, computes the new array from what it read,
\* and writes the array back.
NoFaults == <<NoExc, NoExc>>
WriteLines ==
    {<<"POST", <<"gists", "g1", "licenses">>>>,
     <<"PUT", <<"gists", "g1", "licenses", "K1">>>>,
     <<"DELETE", <<"gists", "g1", "licenses", "K1">>>>,
     <<"DELETE", <<"gists", "g1", "licenses", "expired">>>>}
FullBody == MkBody("bob", "premium", "m2", Strftime(1), Strftime(2), "g1")

\* What the endpoint function of worker x does on the store gs it reads.
EndpointOn(x, gs) ==
    LET gid == GistIdOf(x.path)
        key == LicenseKeyOf(x.path)
    IN  CASE x.ep = "create_license_in_gist"
               -> CreateLicenseInGist(gs, gid, x.body, x.days, x.key, now, NoFaults)
          [] x.ep = "update_license_in_gist"
               -> UpdateLicenseInGist(gs, gid, key, x.body, NoFaults)
          [] x.ep = "delete_license_from_gist"
               -> DeleteLicenseFromGist(gs, gid, key, NoFaults)
          [] OTHER -> DeleteExpiredLicensesInGist(gs, gid, now, NoFaults)
Writes(h) == \E i \in DOMAIN h.calls : h.calls[i] = "updateDocument"

\* The mutant of CommitWrite: a conditional write, refused when the document is no
\* longer the one that was read.
CommitWriteIfUnchanged(cur, snap, g, content) ==
    IF cur[g] = snap[g] THEN [cur EXCEPT ![g].content = content] ELSE cur

\* updateDocument(id, content): the array replaces the document's content, whatever
\* the document holds by now (snap is what the writer had read).
CommitWrite(cur, snap, g, content) == [cur EXCEPT ![g].content = content]

InitRace ==
    /\ gists \in [GistIds ->
          {Gist("a.json", ListDoc(items)) :
              items \in {<<>>,
                         <<Rec("K1", "alice", "free", "m1", Strftime(0), Strftime(0))>>,
                         <<Rec("K1", "alice", "free", "m1", Strftime(0), Strftime(0)),
                           Rec("K2", "alice", "free", "m1", Strftime(0), Strftime(1))>>}}]
    /\ now = 1
    /\ Idle
    /\ NoRace

\* Worker w takes a write request and reads the document; a request that fails on
\* what it read is answered at once.
RaceRead(w) ==
    /\ workers[w].pc = "start"
    /\ \E line \in WriteLines, key \in Keys :
          LET x == Worker("read", Dispatch(line[1], line[2]), line[2], FullBody, MaxDays,
                          key, gists, NoResp)
              h == EndpointOn(x, gists)
          IN  workers' = [workers EXCEPT ![w] =
                             IF Writes(h) THEN x
                             ELSE [x EXCEPT !.pc = "done", !.resp = h.resp]]
    /\ events' = Append(events, <<w, "read">>)
    /\ UNCHANGED <<gists, now, base, listing, single>>

\* Worker w writes back the array it computed from what it had read.
RaceWrite(w) ==
    /\ workers[w].pc = "read"
    /\ LET x == workers[w]
           g == GistIdOf(x.path)
           h == EndpointOn(x, x.snap)
       IN  /\ gists' = CommitWrite(gists, x.snap, g, h.store[g].content)
           /\ workers' = [workers EXCEPT ![w] = [x EXCEPT !.pc = "done", !.resp = h.resp]]
    /\ events' = Append(events, <<w, "write">>)
    /\ UNCHANGED <<now, base, listing, single>>

NextRace == \E w \in Workers : RaceRead(w) \/ RaceWrite(w)

SpecRace == InitRace /\ [][NextRace]_vars

(* ------------------------------ the claims ---------------------------- *)
\* The words of a header value, read off the value itself: a word starts at an atom
\* that is no space and follows a space or nothing.
WordStarts(s) == {i \in DOMAIN s : s[i] # Space /\ (i = 1 \/ s[i - 1] = Space)}
WordEnd(s, i) ==
    CHOOSE j \in i..Len(s) :
        /\ \A k \in i..j : s[k] # Space
        /\ (j = Len(s) \/ s[j + 1] = Space)
FirstWord(s) == LET i == CHOOSE i \in WordStarts(s) : \A j \in WordStarts(s) : i <= j
                IN  SubSeq(s, i, WordEnd(s, i))
WellFormedBearer(h) ==
    /\ h.present
    /\ Cardinality(WordStarts(h.s)) = 2
    /\ FirstWord(h.s) \in {<<"Bearer">>, <<"bearer">>}
Guarded == ep \notin {"root", "none"}

\* C1: a request to a non-root endpoint whose Authorization header is absent, empty
\* or not two whitespace-separated parts with the first 'bearer' (in any case) is
\* answered 401, and no handle is created and no remote call is made for it.
C1_MalformedHeaderIs401 ==
    (pc \in {"authed", "done"} /\ Guarded /\ ~WellFormedBearer(req.header))
    => /\ pc = "done"
       /\ resp.status = 401
       /\ handle = NoHandle /\ calls = <<>> /\ auth = NoExc /\ ran = Absent

C1_Witness ==
    /\ pc = "done" /\ ep = "create_license_in_gist"
    /\ req.header.present /\ Cardinality(WordStarts(req.header.s)) = 3
    /\ FirstWord(req.header.s) = <<"Bearer">>
    /\ resp.status = 401

\* C2: a request with a well-formed Bearer header whose token the remote
\* authentication rejects (an HTTP failure, or an identity without 'id') is
\* answered 401, and its endpoint's client operation is not run.
C2_InvalidTokenIs401 ==
    (pc = "done" /\ Guarded /\ auth \notin {NoExc, AuthOk})
    => (resp.status = 401 /\ ran = Absent)

\* The document of the request in hand, and what a claim reads off it.
Doc == gists[Gid]
IsArrayDoc == Doc.exists /\ Doc.content.kind = "list"
Objects(items) == SelectSeq(items, IsObj)
KeysOf(items) == {items[i].f["license"] : i \in {j \in DOMAIN items : IsObj(items[j])}}
\* The endpoint function of ep ran for the request in hand and its reads of the
\* remote store succeeded.
Ran(e) == pc = "done" /\ ep = e /\ ran # Absent
ReadOk == raised.kind # "HTTPError"

\* C3: List on a document whose body is no JSON array is answered 400; on a
\* document the remote store does not have, 404.
C3_ListNonArrayIs400 ==
    Ran("list_licenses_in_gist")
    => /\ (ReadOk /\ Doc.exists /\ Doc.content.kind # "list") => resp.status = 400
       /\ (raised = HTTPError(404, "Not Found")) => resp.status = 404

\* C4: List on an array document succeeds with one entry per object element, in
\* document order, carrying the element's fields, gist_id and the document's name,
\* whatever the other elements are and whatever fields the objects have.
C4_ListReturnsEveryObject ==
    (Ran("list_licenses_in_gist") /\ ReadOk /\ IsArrayDoc)
    => LET objs == Objects(Doc.content.items)
       IN  /\ resp.status = 200
           /\ Len(resp.items) = Len(objs)
           /\ \A j \in DOMAIN objs :
                 /\ resp.items[j].f = objs[j].f
                 /\ resp.items[j].gist_id = Gid
                 /\ resp.items[j].gist_name = Doc.name

\* The instant a timestamp string denotes, if it has the format.
Denotes(str, t) == t \in 0..(Len(TsStr) - 1) /\ Strftime(t) = str
\* C5: every record of the document is returned by List with is_expired true
\* exactly when its 'expired' is present, has the format and is strictly earlier
\* than the read; absent, empty or unparsable gives false, not an error.
C5_IsExpiredAtRead ==
    (Ran("list_licenses_in_gist") /\ ReadOk /\ IsArrayDoc)
    => \A i \in DOMAIN Doc.content.items :
          LET x == Doc.content.items[i]
          IN  IsObj(x) /\ (\A f \in Fields \ {"expired"} : x.f[f] # Absent)
              => \E j \in DOMAIN resp.items :
                    /\ resp.items[j].f = x.f
                    /\ resp.items[j].is_expired
                         = (\E t \in 0..(Len(TsStr) - 1) : Denotes(x.f["expired"], t) /\ t < now)

\* C6: DELETE /gists/{id}/licenses/expired runs the bulk delete_expired_licenses,
\* never the single-record delete_license with the key 'expired'.
C6_ExpiredPathIsBulkDelete ==
    (pc = "done" /\ req.method = "DELETE" /\ Len(req.path) = 4 /\ req.path[4] = "expired"
       /\ ran # Absent)
    => ran = "delete_expired_licenses"

\* The step in which the endpoint function of e answers the request in hand.
Answers(e) == pc = "authed" /\ ep = e /\ pc' = "done"
FirstWith(items, key) ==
    CHOOSE i \in DOMAIN items :
        HasKey(items[i], key) /\ \A j \in 1..(i - 1) : ~HasKey(items[j], key)
\* C7: an Update whose body sets only some fields is accepted and merges exactly
\* those into the record with the key; the record's other fields and every other
\* record are written back as they were, in the same order.
C7_PartialUpdateMerges ==
    [][ (/\ Answers("update_license_in_gist")
         /\ IsArrayDoc
         /\ LicenseKeyOf(req.path) \in KeysOf(Doc.content.items)
         /\ req'.body # NoBody
         /\ raised'.kind # "HTTPError")
        => LET key == LicenseKeyOf(req.path)
               old == Doc.content.items
               new == gists'[Gid].content.items
               at == FirstWith(old, key)
           IN  /\ resp'.status = 200
               /\ Len(new) = Len(old)
               /\ \A i \in DOMAIN old : i # at => new[i] = old[i]
               /\ \A f \in Fields :
                     new[at].f[f] = IF f \in BaseFields /\ req'.body[f] # Absent
                                    THEN req'.body[f] ELSE old[at].f[f] ]_vars

\* C8: Update and Delete with a key no element of the document has are answered 404
\* and write nothing; after a Delete that succeeded the document has no element
\* with the key, so List does not return it and a second Delete is answered 404.
C8_AbsentKeyIsNotFound ==
    [][ /\ (/\ Answers("update_license_in_gist") \/ Answers("delete_license_from_gist")
            /\ ran' # Absent
            /\ IsArrayDoc
            /\ LicenseKeyOf(req.path) \notin KeysOf(Doc.content.items)
            /\ raised'.kind # "HTTPError")
           => /\ resp'.status = 404
              /\ gists' = gists
              /\ \A i \in DOMAIN calls' : calls'[i] # "updateDocument"
        /\ (Answers("delete_license_from_gist") /\ resp'.status = 204)
           => LET key == LicenseKeyOf(req.path)
                  again == DeleteLicenseFromGist(gists', Gid, key, <<NoExc, NoExc>>)
                  list == ListLicensesInGist(gists', Gid, now, <<NoExc, NoExc>>)
              IN  /\ key \notin KeysOf(gists'[Gid].content.items)
                  /\ \A j \in DOMAIN list.resp.items :
                        list.resp.items[j].f["license"] # key
                  /\ again.resp.status = 404 /\ again.store = gists' ]_vars

C8_Witness ==
    /\ Ran("delete_license_from_gist") /\ IsArrayDoc /\ Doc.content.items # <<>>
    /\ raised.kind = "ValueError" /\ resp.status = 404

AllDone == \A w \in Workers : workers[w].pc = "done"
\* Both requests read the document before either wrote it, and both wrote.
BothReadFirst ==
    /\ Len(events) = 4
    /\ events[1][2] = "read" /\ events[2][2] = "read"
    /\ events[3][2] = "write" /\ events[4][2] = "write"
Succeeded(x) == x.resp.status \in {200, 201, 204}

\* C10: there is no version check on a write: when two write requests both read
\* the document before either writes, both report success and the document ends as
\* the array the last writer computed from what it had read, so the other
\* request's change (its created record, its update, its deletion) is not in it.
C10_LastWriterWins ==
    (AllDone /\ BothReadFirst)
    => LET last == workers[events[4][1]]
           old == base["g1"].content.items
           new == gists["g1"].content.items
           Keep(e) == ~HasKey(e, LicenseKeyOf(last.path))
       IN  /\ \A w \in Workers : Succeeded(workers[w])
           /\ last.ep = "create_license_in_gist"
                 => new = Append(old, Obj(last.resp.items[1].f))
           /\ last.ep = "update_license_in_gist"
                 => new = [old EXCEPT ![FirstWith(old, LicenseKeyOf(last.path))] =
                                          Obj(last.resp.items[1].f)]
           /\ last.ep = "delete_license_from_gist" => new = SelectSeq(old, Keep)

C10_Witness ==
    /\ AllDone /\ BothReadFirst
    /\ \A w \in Workers : workers[w].ep = "create_license_in_gist" /\ workers[w].resp.status = 201
    /\ workers[events[3][1]].key # workers[events[4][1]].key
    /\ workers[events[3][1]].key \notin KeysOf(gists["g1"].content.items)
    /\ Len(gists["g1"].content.items) = Len(base["g1"].content.items) + 1

(* ------------------ the license registry, call by call ---------------- *)
\* No two object elements of an array carry the same 'license' value.
UniqueKeys(items) ==
    \A i, j \in DOMAIN items :
        (/\ IsObj(items[i]) /\ IsObj(items[j])
         /\ items[i].f["license"] # Absent
         /\ items[i].f["license"] = items[j].f["license"]) => i = j
RegistryDocs == {s \in SeqsUpTo(SampleElems, MaxLen) : UniqueKeys(s)}

\* The registry operations as the endpoint functions of main.py, each called with
\* its path parameters by a caller that holds an authenticated handle.
RegistryCalls ==
    {<<"POST", <<"gists", "g1", "licenses">>, "create_license_in_gist">>,
     <<"DELETE", <<"gists", "g1", "licenses", "expired">>, "delete_expired_licenses_in_gist">>}
    \cup {<<"PUT", <<"gists", "g1", "licenses", k>>, "update_license_in_gist">> : k \in Keys}
    \cup {<<"DELETE", <<"gists", "g1", "licenses", k>>, "delete_license_from_gist">> : k \in Keys}

InitRegistry ==
    /\ gists \in [GistIds -> {Gist("a.json", ListDoc(s)) : s \in RegistryDocs}]
    /\ now = 0
    /\ Idle
    /\ NoRace

Invoke ==
    /\ pc = "idle"
    /\ \E c \in RegistryCalls :
          /\ req' = Request(c[1], c[2], HeaderOf(<<"Bearer", Space, "tok">>))
          /\ ep' = c[3]
    /\ pc' = "authed"
    /\ handle' = "tok" /\ auth' = AuthOk /\ calls' = <<"authenticate">>
    /\ resp' = NoResp /\ ran' = Absent /\ raised' = NoExc
    /\ UNCHANGED <<gists, now, race>>

NextRegistry ==
    \/ Invoke \/ create_license_in_gist \/ update_license_in_gist
    \/ delete_license_path \/ Reply \/ Tick

SpecRegistry == InitRegistry /\ [][NextRegistry]_vars

\* The 'license' values of the object elements of an array, in order.
LicensesOf(items) ==
    LET objs == Objects(items) IN [i \in DOMAIN objs |-> objs[i].f["license"]]
AllUnique ==
    \A g \in GistIds :
        (gists[g].exists /\ gists[g].content.kind = "list")
        => UniqueKeys(gists[g].content.items)
\* A successful Update leaves every record's 'license' as it was.
UpdateKeepsKeys ==
    (pc = "authed" /\ ep = "update_license_in_gist" /\ resp'.status = 200)
    => LicensesOf(gists'[Gid].content.items) = LicensesOf(Doc.content.items)
\* The step is a Create whose generated key is already in the document.
Collision ==
    /\ pc = "authed" /\ ep = "create_license_in_gist" /\ resp'.status = 201
    /\ resp'.items[1].f["license"] \in KeysOf(Doc.content.items)

LoopOver(items, ms) ==
    LET objs == Objects(items)
        k == Len(ms)
    IN  \/ k = Len(objs)
        \/ k >= 1 /\ (ms[k].exc # NoExc \/ ~LicenseResponseValid(objs[k]))
\* The response of list_licenses_in_gist once its loop is over.
ListAnswer(items, gid, ms) ==
    LET loop == ListLoop(items, 1, gid, now, ms, [items |-> <<>>, calls |-> ReadCalls])
    IN  IF loop.exc # NoExc THEN list_licenses_in_gist_except(loop.exc, gid)
        ELSE Ok(200, loop.items, <<>>, 0)

InitList ==
    /\ gists \in [GistIds -> {Gist("a.json", ListDoc(s)) : s \in SeqsUpTo(SampleElems, MaxLen)}]
    /\ now = 0
    /\ Idle
    /\ NoRace

\* get_gist_content and the test that it is a list
ListContent ==
    /\ listing.pc = "start"
    /\ \E fault \in Faults :
          LET h == ListLicensesInGist(gists, "g1", now, <<fault, NoExc>>)
              items == gists["g1"].content.items
              names == {gists["g1"].name}
          IN  listing' =
                 IF h.exc # NoExc /\ h.calls = ReadCalls
                 THEN Listing("done", <<>>, <<>>, names, h.resp)
                 ELSE IF LoopOver(items, <<>>)
                 THEN Listing("done", items, <<>>, names, ListAnswer(items, "g1", <<>>))
                 ELSE Listing("names", items, <<>>, names, NoResp)
    /\ UNCHANGED <<gists, now, workers, events, base, single>>

\* get_gist_data(gist_id)['name'] for the next object element
ListName ==
    /\ listing.pc = "names"
    /\ \E fault \in Faults :
          LET d == LibGetGistData(gists, "g1", fault)
              m == [exc |-> d.exc, name |-> IF d.exc = NoExc THEN d.meta[1].name ELSE Absent]
              ms == Append(listing.ms, m)
          IN  listing' =
                 IF LoopOver(listing.items, ms)
                 THEN [listing EXCEPT !.pc = "done", !.ms = ms,
                                      !.resp = ListAnswer(listing.items, "g1", ms)]
                 ELSE [listing EXCEPT !.ms = ms]
    /\ UNCHANGED <<gists, now, workers, events, base, single>>

Running == listing.pc = "names"
\* update_gist of another request renames the document.
Rename ==
    /\ listing.pc # "done"
    /\ \E name \in {"a.json", "b.json"} :
          LET h == UpdateGist(gists, "g1", name, Absent, NoExc)
          IN  /\ h.store # gists
              /\ gists' = h.store
              /\ listing' = IF Running
                            THEN [listing EXCEPT !.names = @ \cup {h.store["g1"].name}]
                            ELSE listing
    /\ UNCHANGED <<now, workers, events, base, single>>

\* delete_gist of another request deletes it.
Remove ==
    /\ listing.pc # "done"
    /\ gists["g1"].exists
    /\ gists' = DeleteGist(gists, "g1", NoExc).store
    /\ UNCHANGED <<now, workers, events, base, listing, single>>

NextList == ListContent \/ ListName \/ Rename \/ Remove

SpecList == InitList /\ [][NextList]_vars

ListSucceeded == listing.pc = "done" /\ listing.resp.status = 200
Entries == listing.resp.items

\* C12: all entries returned by one successful List call carry the same gist_name,
\* the name the document had at one moment of that call, even when another request
\* renames or deletes the document while the call runs.
C12_ListOneName ==
    ListSucceeded
    => \E n \in listing.names : \A i \in DOMAIN Entries : Entries[i].gist_name = n

\* What does hold: every entry carries a name the document had at some moment of
\* the call, so the entries agree when the document is not renamed meanwhile.
C12_ListNamesDuringCall ==
    ListSucceeded
    => \A i \in DOMAIN Entries : Entries[i].gist_name \in listing.names
C12_Witness ==
    /\ ListSucceeded
    /\ Len(Entries) = 2
    /\ Entries[1].gist_name = "a.json" /\ Entries[2].gist_name = "b.json"

====
